---- MODULE Spec2Model ----
(***************************************************************************)
(* Model of mka/path.py: splitpath, mkdir and symlink, together with the   *)
(* parts of posixpath, os.makedirs and the stat(2), mkdir(2), unlink(2)    *)
(* and symlink(2) system calls that they call.  A path string is a         *)
(* sequence of one-character strings; a filesystem node is a sequence of   *)
(* names (the root is the empty sequence), and a name is a non-empty       *)
(* sequence of characters.                                                 *)
(*                                                                         *)
(* The filesystem holds directories, regular files and symbolic links;     *)
(* only symlink(..., overwrite=True) removes an entry.  An unprivileged     *)
(* caller owns every entry, so the owner's permission bits decide what it  *)
(* may do: looking a name up in a directory takes search permission on the *)
(* directory, creating or removing an entry takes write and search         *)
(* permission; a privileged caller is refused nothing.  Each system call   *)
(* is one atomic step, so concurrent calls interleave between them.  The   *)
(* interpreter (before or from Python 3.7), the caller's privilege and the *)
(* umask are fixed when a run starts.                                      *)
(***************************************************************************)
EXTENDS Integers, Sequences, FiniteSets, TLC

\* ------------------------------------------------------------------ bounds

\* Longest path string drawn as an input of splitpath.
MaxLen == 4

\* Entries splitpath's components list can hold: the append that would make
\* it longer (only a run whose loop never arrives at the root gets there)
\* finds no memory and raises MemoryError.
MaxComponents == 7

\* Calls (of mkdir or symlink) a process makes one after the other.
MaxCalls == 2

\* ------------------------------------------------------- path strings

Slash == "/"
Dot == "."
Alphabet == {Slash, Dot, "a", "b"}

RECURSIVE StringsOfLen(_)
StringsOfLen(n) ==
    IF n = 0 THEN {<< >>}
    ELSE {Append(s, c) : s \in StringsOfLen(n - 1), c \in Alphabet}

Strings == UNION {StringsOfLen(n) : n \in 0..MaxLen}

Root == <<Slash>>
Curdir == <<Dot>>
Pardir == <<Dot, Dot>>
EmptyStr == << >>

\* str.startswith('/')
IsAbs(p) == Len(p) > 0 /\ p[1] = Slash

AllSlashes(p) == \A i \in 1..Len(p) : p[i] = Slash

\* str.rfind('/') + 1
RFindSlash(p) ==
    LET hits == {i \in 1..Len(p) : p[i] = Slash}
    IN  IF hits = {} THEN 0 ELSE CHOOSE i \in hits : \A j \in hits : j <= i

\* str.rstrip('/')
RECURSIVE RStrip(_)
RStrip(p) ==
    IF Len(p) > 0 /\ p[Len(p)] = Slash THEN RStrip(SubSeq(p, 1, Len(p) - 1)) ELSE p

\* posixpath.split: <<head, tail>>
split(p) ==
    LET i == RFindSlash(p)
        h == SubSeq(p, 1, i)
        t == SubSeq(p, i + 1, Len(p))
    IN  <<IF h # EmptyStr /\ ~AllSlashes(h) THEN RStrip(h) ELSE h, t>>

\* posixpath.join(a, b)
join(a, b) ==
    IF IsAbs(b) THEN b
    ELSE IF a = EmptyStr \/ a[Len(a)] = Slash THEN a \o b
    ELSE a \o <<Slash>> \o b

\* str.split('/'): the components between the slashes, empty ones included.
RECURSIVE StrSplit(_)
StrSplit(p) ==
    LET i == RFindSlash(p)
    IN  IF i = 0 THEN <<p>>
        ELSE Append(StrSplit(SubSeq(p, 1, i - 1)), SubSeq(p, i + 1, Len(p)))

\* '/'.join(comps)
RECURSIVE StrJoin(_)
StrJoin(comps) ==
    IF Len(comps) = 0 THEN EmptyStr
    ELSE IF Len(comps) = 1 THEN comps[1]
    ELSE StrJoin(SubSeq(comps, 1, Len(comps) - 1)) \o <<Slash>> \o comps[Len(comps)]

\* The loop of posixpath.normpath over comps[i..], new_comps so far in acc.
RECURSIVE NormLoop(_, _, _, _)
NormLoop(comps, i, acc, initial) ==
    IF i > Len(comps) THEN acc
    ELSE LET comp == comps[i]
         IN  IF comp = EmptyStr \/ comp = Curdir THEN NormLoop(comps, i + 1, acc, initial)
             ELSE IF comp # Pardir
                     \/ (initial = 0 /\ acc = << >>)
                     \/ (acc # << >> /\ acc[Len(acc)] = Pardir)
                  THEN NormLoop(comps, i + 1, Append(acc, comp), initial)
             ELSE IF acc # << >>
                  THEN NormLoop(comps, i + 1, SubSeq(acc, 1, Len(acc) - 1), initial)
             ELSE NormLoop(comps, i + 1, acc, initial)

RECURSIVE Slashes(_)
Slashes(n) == IF n = 0 THEN EmptyStr ELSE <<Slash>> \o Slashes(n - 1)

\* posixpath.normpath
normpath(p) ==
    IF p = EmptyStr THEN Curdir
    ELSE LET initial == IF ~IsAbs(p) THEN 0
                        ELSE IF Len(p) >= 2 /\ p[2] = Slash /\ ~(Len(p) >= 3 /\ p[3] = Slash)
                             THEN 2 ELSE 1
             body == StrJoin(NormLoop(StrSplit(p), 1, << >>, initial))
             out == Slashes(initial) \o body
         IN  IF out = EmptyStr THEN Curdir ELSE out

\* posixpath.abspath, with the process's working directory wd (an absolute string).
abspath(p, wd) == normpath(IF IsAbs(p) THEN p ELSE join(wd, p))

\* A slip: the list is returned as built, deepest first.
ReverseOmitted(xs) == xs

\* list(reversed(xs))
RECURSIVE Reverse(_)
Reverse(xs) == IF Len(xs) = 0 THEN << >> ELSE Append(Reverse(Tail(xs)), Head(xs))

\* ------------------------------------------------------------ splitpath

\* The error of a list that can grow no more.
MemoryError == <<"MemoryError">>

\* One pass of the while loop of splitpath: the parent of head.
ParentOf(h) == split(h)[1]

\* The while loop of splitpath from head h with the list comps built so far:
\* the final list, or MemoryError when taking the parent no longer changes
\* head although head is not the root: every further pass appends one more
\* entry and leaves head as it is, until the list can grow no more.
RECURSIVE SplitLoop(_, _, _)
SplitLoop(h, comps, wd) ==
    IF h = abspath(Root, wd) THEN comps
    ELSE LET h2 == ParentOf(h)
         IN  IF h2 = h THEN MemoryError
             ELSE SplitLoop(h2, Append(comps, abspath(h2, wd)), wd)

\* splitpath(path): the list it returns, or the MemoryError it raises.
splitpath(p, wd) ==
    LET h == ParentOf(p)
        r == SplitLoop(h, <<p, h>>, wd)
    IN  IF r = MemoryError THEN MemoryError ELSE Reverse(r)

\* ----------------------------------------------------------- filesystem

\* Permission bits.
RECURSIVE BitAnd(_, _)
BitAnd(a, b) ==
    IF a = 0 \/ b = 0 THEN 0
    ELSE (a % 2) * (b % 2) + 2 * BitAnd(a \div 2, b \div 2)

AllPerms == 7 * 64 + 7 * 8 + 7      \* 0o777
Sticky == 8 * 64                    \* 0o1000
OwnerWrite == 2 * 64                \* 0o200
OwnerSearch == 1 * 64               \* 0o100

\* The mode mkdir(2) gives a new directory: mode & ~umask & 01777 (the
\* permission bits and the sticky bit).
Masked(mode, um) == BitAnd(mode, Sticky + AllPerms - BitAnd(um, AllPerms))

\* Whether the (unprivileged) owner may look a name up in a directory of
\* mode m.
OwnerSearchable(m) == BitAnd(m, OwnerSearch) # 0

\* Whether the (unprivileged) owner may create or remove an entry in a
\* directory of mode m: the kernel asks for write and search permission.
OwnerWritable(m) == BitAnd(m, OwnerWrite) # 0 /\ OwnerSearchable(m)

RootNode == << >>
ParentNode(n) == IF n = RootNode THEN RootNode ELSE SubSeq(n, 1, Len(n) - 1)

IsDir(f, n) == n \in DOMAIN f /\ f[n].kind = "dir"
IsLink(f, n) == n \in DOMAIN f /\ f[n].kind = "link"

Ok(n) == [err |-> "", node |-> n]
Err(e) == [err |-> e, node |-> RootNode]

\* Symbolic links the kernel follows in one path resolution before it gives
\* up with ELOOP.
MaxSymlinks == 40

\* Path resolution from node cur over the components comps[i..], up to the
\* first symbolic link it has to follow: every component, an empty one (a
\* doubled or trailing slash) and "." included, is looked up in a directory.
\* Looking up a name, "." and ".." included, takes search permission on the
\* directory unless the caller is privileged (priv); an empty component looks
\* nothing up.  When a component is a symbolic link, link is its node and
\* rest are the components after it.
RECURSIVE WalkToLink(_, _, _, _, _)
WalkToLink(f, cur, comps, i, priv) ==
    IF i > Len(comps) THEN [err |-> "", node |-> cur, link |-> FALSE, rest |-> << >>]
    ELSE IF ~IsDir(f, cur) THEN [err |-> "ENOTDIR", node |-> RootNode, link |-> FALSE, rest |-> << >>]
    ELSE IF comps[i] = EmptyStr THEN WalkToLink(f, cur, comps, i + 1, priv)
    ELSE IF ~priv /\ ~OwnerSearchable(f[cur].mode)
         THEN [err |-> "EACCES", node |-> RootNode, link |-> FALSE, rest |-> << >>]
    ELSE IF comps[i] = Curdir THEN WalkToLink(f, cur, comps, i + 1, priv)
    ELSE IF comps[i] = Pardir THEN WalkToLink(f, ParentNode(cur), comps, i + 1, priv)
    ELSE IF Append(cur, comps[i]) \notin DOMAIN f
         THEN [err |-> "ENOENT", node |-> RootNode, link |-> FALSE, rest |-> << >>]
    ELSE IF IsLink(f, Append(cur, comps[i]))
         THEN [err |-> "", node |-> Append(cur, comps[i]), link |-> TRUE,
               rest |-> SubSeq(comps, i + 1, Len(comps))]
    ELSE WalkToLink(f, Append(cur, comps[i]), comps, i + 1, priv)

\* Path resolution from node cur over comps, every symbolic link followed: a
\* link is replaced by its target, resolved from the root or from the
\* directory that holds the link; hops links may still be followed.
RECURSIVE Walk(_, _, _, _, _)
Walk(f, cur, comps, hops, priv) ==
    LET r == WalkToLink(f, cur, comps, 1, priv)
    IN  IF ~r.link THEN [err |-> r.err, node |-> r.node]
        ELSE IF hops = 0 THEN Err("ELOOP")
        ELSE Walk(f, IF IsAbs(f[r.node].target) THEN RootNode ELSE ParentNode(r.node),
                  StrSplit(f[r.node].target) \o r.rest, hops - 1, priv)

\* The node an absolute, normalised path string names when no component of it
\* is a symbolic link.
NodeOf(p) == SelectSeq(StrSplit(p), LAMBDA c : c # EmptyStr)

\* stat(2) of path p by a process whose working directory is wd and which is
\* privileged or not (priv): symbolic links are followed, the last component
\* included; EACCES when a directory on the way is not searchable.
Stat(f, p, wd, priv) ==
    IF p = EmptyStr THEN Err("ENOENT")
    ELSE Walk(f, IF IsAbs(p) THEN RootNode ELSE NodeOf(wd), StrSplit(p), MaxSymlinks, priv)

\* os.path.exists: whether os.stat(path) succeeds.  False for a symbolic link
\* whose target is missing, and for an entry under a directory the caller may
\* not search.
exists(f, p, wd, priv) == Stat(f, p, wd, priv).err = ""

\* What a system call that creates or removes the entry p names looks at:
\* the directory holding the entry (par, symbolic links followed), the entry's
\* name (last), whether slashes follow the name, and the entry's node (child),
\* which is not followed when it is a symbolic link.  The name, "." and ".."
\* included, is looked up in par, which takes search permission on par as the
\* lookup of "." in it does.
Entry(f, p, wd, priv) ==
    LET s == RStrip(p)
        i == RFindSlash(s)
        parentStr == SubSeq(s, 1, i)
        par == Stat(f, parentStr \o Curdir, wd, priv)
    IN  [stripped |-> s, par |-> par, last |-> SubSeq(s, i + 1, Len(s)),
         slash |-> s # p, child |-> Append(par.node, SubSeq(s, i + 1, Len(s)))]

\* The filesystem f with the entry e at node n.
WithEntry(f, n, e) == [m \in DOMAIN f \cup {n} |-> IF m = n THEN e ELSE f[m]]

\* mkdir(2): [err, fs, node].  Trailing slashes are dropped; the parent is
\* resolved first; a last component "." or ".." (or the root) exists already,
\* and so does a symbolic link, whatever it points to.
SysMkdir(f, p, mode, wd, um, privileged) ==
    LET e == Entry(f, p, wd, privileged)
        fail(x) == [err |-> x, fs |-> f, node |-> RootNode]
    IN  IF p = EmptyStr THEN fail("ENOENT")
        ELSE IF e.stripped = EmptyStr THEN fail("EEXIST")
        ELSE IF e.par.err # "" THEN fail(e.par.err)
        ELSE IF e.last = Curdir \/ e.last = Pardir THEN fail("EEXIST")
        ELSE IF e.child \in DOMAIN f THEN fail("EEXIST")
        ELSE IF ~privileged /\ ~OwnerWritable(f[e.par.node].mode) THEN fail("EACCES")
        ELSE [err |-> "",
              fs |-> WithEntry(f, e.child,
                               [kind |-> "dir", mode |-> Masked(mode, um), target |-> EmptyStr]),
              node |-> e.child]

\* unlink(2): [err, fs, node].  The root, "." and ".." are directories; a name
\* followed by a slash must be a directory, and a directory is not unlinked.
SysUnlink(f, p, wd, privileged) ==
    LET e == Entry(f, p, wd, privileged)
        fail(x) == [err |-> x, fs |-> f, node |-> RootNode]
    IN  IF p = EmptyStr THEN fail("ENOENT")
        ELSE IF e.stripped = EmptyStr THEN fail("EISDIR")
        ELSE IF e.par.err # "" THEN fail(e.par.err)
        ELSE IF e.last = Curdir \/ e.last = Pardir THEN fail("EISDIR")
        ELSE IF e.child \notin DOMAIN f THEN fail("ENOENT")
        ELSE IF e.slash THEN fail(IF IsDir(f, e.child) THEN "EISDIR" ELSE "ENOTDIR")
        ELSE IF ~privileged /\ ~OwnerWritable(f[e.par.node].mode) THEN fail("EACCES")
        ELSE IF IsDir(f, e.child) THEN fail("EISDIR")
        ELSE [err |-> "", fs |-> [n \in DOMAIN f \ {e.child} |-> f[n]], node |-> e.child]

\* symlink(2) of a link at p that points to src: [err, fs, node].  The target
\* string is stored as given and not looked at, except that it is not empty.
SysSymlink(f, src, p, wd, privileged) ==
    LET e == Entry(f, p, wd, privileged)
        fail(x) == [err |-> x, fs |-> f, node |-> RootNode]
    IN  IF src = EmptyStr \/ p = EmptyStr THEN fail("ENOENT")
        ELSE IF e.stripped = EmptyStr THEN fail("EEXIST")
        ELSE IF e.par.err # "" THEN fail(e.par.err)
        ELSE IF e.last = Curdir \/ e.last = Pardir THEN fail("EEXIST")
        ELSE IF e.child \in DOMAIN f THEN fail("EEXIST")
        ELSE IF e.slash THEN fail("ENOENT")
        ELSE IF ~privileged /\ ~OwnerWritable(f[e.par.node].mode) THEN fail("EACCES")
        ELSE [err |-> "",
              fs |-> WithEntry(f, e.child, [kind |-> "link", mode |-> AllPerms, target |-> src]),
              node |-> e.child]

\* ------------------------------------------------------------------ state

Procs == {1, 2}

\* Python's None.
None == <<"None">>

VARIABLES
    fs,         \* the filesystem: node -> [kind, mode, target]
    env,        \* what a run does not change: [py37, privileged, umask, cwd, targets, modes,
                \* srcs, dests]
    pc,         \* per process: where it is in mkdir or symlink
    arg,        \* per process: the arguments of its current call: [fn, path, given, mode]
                \* of mkdir, [fn, path, src, overwrite] of symlink (path is dest)
    components, \* per process: splitpath(path)
    idx,        \* per process: the position of mkdir's for loop in components
    new_path,   \* per process: mkdir's new_path
    frames,     \* per process: the active os.makedirs calls, outermost first: [name, mode]
    ret,        \* per process: how its last call ended: [kind, val]
    left,       \* per process: calls it may still make
    fs0,        \* per process: the filesystem when its current call began
    created,    \* per process: the nodes its current call created
    log,        \* per process: the mkdir(2) calls of its current call: [name, err, depth]
    rep,        \* per process: [same, kind, missing]: the previous call, when it was a
                \* call of mkdir on the same path as the current one
    sp          \* one run of splitpath, step by step: [pc, path, head, components]

mkvars == <<fs, env, pc, arg, components, idx, new_path, frames, ret, left, fs0,
            created, log, rep>>
vars == <<mkvars, sp>>

\* ------------------------------------------------- splitpath, step by step

SpOff == [pc |-> "off", path |-> EmptyStr, head |-> EmptyStr, components |-> << >>]

\* Whether components.append finds memory for one more entry.
CanGrow(comps) == Len(comps) < MaxComponents

\* head, tail = os.path.split(path); components = [path, head]
SpStart ==
    /\ sp.pc = "start"
    /\ sp' = [sp EXCEPT !.pc = "loop",
                        !.head = split(sp.path)[1],
                        !.components = <<sp.path, split(sp.path)[1]>>]
    /\ UNCHANGED mkvars

\* One evaluation of the while condition, and one pass of the body when it
\* holds: the pass ends the call with MemoryError when the list cannot grow.
SpLoop ==
    /\ sp.pc = "loop"
    /\ IF sp.head = abspath(Root, env.cwd)
       THEN sp' = [sp EXCEPT !.pc = "done", !.components = Reverse(sp.components)]
       ELSE IF CanGrow(sp.components)
       THEN sp' = [sp EXCEPT !.head = ParentOf(sp.head),
                             !.components = Append(sp.components,
                                                   abspath(ParentOf(sp.head), env.cwd))]
       ELSE sp' = [sp EXCEPT !.pc = "raised", !.head = ParentOf(sp.head)]
    /\ UNCHANGED mkvars

NextSplit == SpStart \/ SpLoop

\* ------------------------------------------------------------- os.makedirs

\* The mode of mkdir when the caller gives none.
DefaultMode == 493             \* 0o755

\* os.makedirs' own default mode.
MakedirsDefaultMode == 7 * 64 + 7 * 8 + 7     \* 0o777

\* head, tail = path.split(name); if not tail: head, tail = path.split(head)
MakedirsParts(name) ==
    LET a == split(name) IN IF a[2] = EmptyStr THEN split(a[1]) ELSE a

\* The mode os.makedirs passes to its recursive call for an intermediate
\* directory: its own mode before Python 3.7, its default from 3.7 on.
IntermediateMode(mode, py37) == IF py37 THEN MakedirsDefaultMode ELSE mode

\* Whether an error of a nested os.makedirs call is caught by its caller:
\* except FileExistsError: pass.  The outermost call has no caller in makedirs.
Swallowed(err, depth) == err = "EEXIST" /\ depth > 1

\* The frames left once the innermost call has returned (or its error was
\* swallowed): a caller whose tail is "." returns at once, any other goes on
\* to its own mkdir.
RECURSIVE Unwind(_)
Unwind(fr) ==
    IF fr = << >> THEN fr
    ELSE IF MakedirsParts(fr[Len(fr)].name)[2] = Curdir
         THEN Unwind(SubSeq(fr, 1, Len(fr) - 1))
         ELSE fr

\* ------------------------------------------------------------------ mkdir

\* A slip: os.path.isdir in place of os.path.exists.
AlreadyExistsAsDir(f, p, wd, priv) ==
    exists(f, p, wd, priv) /\ IsDir(f, Stat(f, p, wd, priv).node)

\* if not os.path.exists(path)
AlreadyExists(f, p, wd, priv) == exists(f, p, wd, priv)

\* component = os.path.abspath(os.path.join('/', component))
Component(c, wd) == abspath(join(Root, c), wd)

\* A slip: the for loop tests the target instead of the component.
ComponentExistsOfTarget(f, c, target, wd, priv) == exists(f, target, wd, priv)

\* if os.path.exists(component), in the for loop of the call on target
ComponentExists(f, c, target, wd, priv) == exists(f, c, wd, priv)

\* What mkdir returns: return new_path.
ReturnValue(np) ==
    IF np = None THEN [kind |-> "none", val |-> None] ELSE [kind |-> "path", val |-> np]

\* A handler that removes what the failed call had created.
OnErrorCleanup(f, made) == [n \in DOMAIN f \ made |-> f[n]]

\* The filesystem an error of os.makedirs leaves behind: mkdir has no handler,
\* the error propagates and what this call created (made) stays.
OnError(f, made) == f

Idle(self) ==
    /\ pc' = [pc EXCEPT ![self] = "idle"]
    /\ components' = [components EXCEPT ![self] = << >>]
    /\ idx' = [idx EXCEPT ![self] = 0]
    /\ new_path' = [new_path EXCEPT ![self] = None]
    /\ frames' = [frames EXCEPT ![self] = << >>]

NoRep == [same |-> FALSE, kind |-> "", missing |-> FALSE]

\* A call begins: what is kept about it starts afresh.
Begin(self) ==
    /\ pc[self] = "idle"
    /\ left[self] > 0
    /\ left' = [left EXCEPT ![self] = @ - 1]
    /\ ret' = [ret EXCEPT ![self] = [kind |-> "running", val |-> None]]
    /\ fs0' = [fs0 EXCEPT ![self] = fs]
    /\ created' = [created EXCEPT ![self] = {}]
    /\ log' = [log EXCEPT ![self] = << >>]

\* A caller invokes mkdir(p) (given = FALSE) or mkdir(p, m).
Call(self, p, given, m) ==
    /\ Begin(self)
    /\ arg' = [arg EXCEPT ![self] =
                 [fn |-> "mkdir", path |-> p, given |-> given,
                  mode |-> IF given THEN m ELSE DefaultMode,
                  src |-> EmptyStr, overwrite |-> FALSE]]
    /\ pc' = [pc EXCEPT ![self] = "check"]
    /\ rep' = [rep EXCEPT ![self] =
                 IF ret[self].kind # "fresh" /\ arg[self].fn = "mkdir" /\ arg[self].path = p
                 THEN [same |-> TRUE, kind |-> ret[self].kind,
                       missing |-> ~exists(fs0[self], p, env.cwd, TRUE)]
                 ELSE NoRep]
    /\ UNCHANGED <<fs, env, components, idx, new_path, frames, sp>>

\* Line 42, and splitpath(path) when the path does not exist.
Check(self) ==
    /\ pc[self] = "check"
    /\ IF AlreadyExists(fs, arg[self].path, env.cwd, env.privileged)
       THEN /\ Idle(self)
            /\ ret' = [ret EXCEPT ![self] = ReturnValue(None)]
       ELSE LET c == splitpath(arg[self].path, env.cwd)
            IN  /\ pc' = [pc EXCEPT ![self] = IF c = MemoryError THEN "splitpath" ELSE "scan"]
                /\ components' = [components EXCEPT ![self] = IF c = MemoryError THEN << >> ELSE c]
                /\ idx' = [idx EXCEPT ![self] = IF c = MemoryError THEN 0 ELSE 1]
                /\ UNCHANGED <<new_path, frames, ret>>
    /\ UNCHANGED <<fs, env, arg, left, fs0, created, log, rep, sp>>

\* The loop of splitpath that never arrives at the root has used up the
\* memory: MemoryError propagates out of splitpath and out of mkdir, which has
\* made no system call since line 42.
SplitpathRaises(self) ==
    /\ pc[self] = "splitpath"
    /\ Idle(self)
    /\ ret' = [ret EXCEPT ![self] = [kind |-> "raised", val |-> MemoryError]]
    /\ UNCHANGED <<fs, env, arg, left, fs0, created, log, rep, sp>>

\* One pass of the for loop: lines 45-51.
Scan(self) ==
    /\ pc[self] = "scan"
    /\ LET component == Component(components[self][idx[self]], env.cwd)
           found == ComponentExists(fs, component, arg[self].path, env.cwd, env.privileged)
       IN  IF found /\ idx[self] < Len(components[self])
           THEN /\ idx' = [idx EXCEPT ![self] = @ + 1]
                /\ UNCHANGED <<pc, new_path, frames>>
           ELSE /\ new_path' = [new_path EXCEPT ![self] = IF found THEN None ELSE component]
                /\ pc' = [pc EXCEPT ![self] = "makedirs"]
                /\ frames' = [frames EXCEPT ![self] =
                                <<[name |-> arg[self].path, mode |-> arg[self].mode]>>]
                /\ UNCHANGED idx
    /\ UNCHANGED <<fs, env, arg, components, ret, left, fs0, created, log, rep, sp>>

\* os.makedirs(name, mode) up to its recursive call or its mkdir.
MakedirsEnter(self) ==
    /\ pc[self] = "makedirs"
    /\ LET fr == frames[self]
           top == fr[Len(fr)]
           ht == MakedirsParts(top.name)
       IN  IF ht[1] # EmptyStr /\ ht[2] # EmptyStr /\ ~exists(fs, ht[1], env.cwd, env.privileged)
           THEN /\ frames' = [frames EXCEPT ![self] =
                                Append(fr, [name |-> ht[1],
                                            mode |-> IntermediateMode(top.mode, env.py37)])]
                /\ UNCHANGED pc
           ELSE /\ pc' = [pc EXCEPT ![self] = "osmkdir"]
                /\ UNCHANGED frames
    /\ UNCHANGED <<fs, env, arg, components, idx, new_path, ret, left, fs0, created, log,
                   rep, sp>>

\* The innermost os.makedirs call's mkdir(name, mode), and what follows from
\* its result: the callers resume, or os.makedirs returns and mkdir returns
\* new_path, or the error propagates out of mkdir.
OsMkdir(self) ==
    /\ pc[self] = "osmkdir"
    /\ LET fr == frames[self]
           top == fr[Len(fr)]
           r == SysMkdir(fs, top.name, top.mode, env.cwd, env.umask, env.privileged)
           rest == Unwind(SubSeq(fr, 1, Len(fr) - 1))
       IN  /\ log' = [log EXCEPT ![self] = Append(@, [name |-> top.name, err |-> r.err, depth |-> Len(fr)])]
           /\ IF r.err = "" \/ Swallowed(r.err, Len(fr))
              THEN /\ fs' = r.fs
                   /\ created' = [created EXCEPT ![self] =
                                    IF r.err = "" THEN @ \cup {r.node} ELSE @]
                   /\ IF rest = << >>
                      THEN /\ Idle(self)
                           /\ ret' = [ret EXCEPT ![self] = ReturnValue(new_path[self])]
                      ELSE /\ frames' = [frames EXCEPT ![self] = rest]
                           /\ UNCHANGED <<pc, components, idx, new_path, ret>>
              ELSE /\ fs' = OnError(fs, created[self])
                   /\ Idle(self)
                   /\ ret' = [ret EXCEPT ![self] = [kind |-> "raised", val |-> <<r.err>>]]
                   /\ UNCHANGED created
    /\ UNCHANGED <<env, arg, left, fs0, rep, sp>>

\* ---------------------------------------------------------------- symlink

\* Where symlink goes on after line 69: if overwrite and os.path.exists(dest).
AfterOverwriteTest(f, dest, overwrite, wd, priv) ==
    IF overwrite /\ exists(f, dest, wd, priv) THEN "unlink" ELSE "oslink"

\* A caller invokes symlink(src, dest, overwrite).
CallSymlink(self, src, dest, overwrite) ==
    /\ Begin(self)
    /\ arg' = [arg EXCEPT ![self] =
                 [fn |-> "symlink", path |-> dest, given |-> FALSE, mode |-> DefaultMode,
                  src |-> src, overwrite |-> overwrite]]
    /\ pc' = [pc EXCEPT ![self] = "overwrite"]
    /\ rep' = [rep EXCEPT ![self] = NoRep]
    /\ UNCHANGED <<fs, env, components, idx, new_path, frames, sp>>

\* Line 69.
OverwriteTest(self) ==
    /\ pc[self] = "overwrite"
    /\ pc' = [pc EXCEPT ![self] =
                AfterOverwriteTest(fs, arg[self].path, arg[self].overwrite, env.cwd, env.privileged)]
    /\ UNCHANGED <<fs, env, arg, components, idx, new_path, frames, ret, left, fs0, created,
                   log, rep, sp>>

\* Line 70: os.unlink(dest); its error propagates out of symlink.
OsUnlink(self) ==
    /\ pc[self] = "unlink"
    /\ LET r == SysUnlink(fs, arg[self].path, env.cwd, env.privileged)
       IN  /\ fs' = r.fs
           /\ IF r.err = ""
              THEN /\ pc' = [pc EXCEPT ![self] = "oslink"]
                   /\ UNCHANGED ret
              ELSE /\ pc' = [pc EXCEPT ![self] = "idle"]
                   /\ ret' = [ret EXCEPT ![self] = [kind |-> "raised", val |-> <<r.err>>]]
    /\ UNCHANGED <<env, arg, components, idx, new_path, frames, left, fs0, created, log,
                   rep, sp>>

\* Line 72: os.symlink(src, dest); symlink returns None, or the error propagates.
OsSymlink(self) ==
    /\ pc[self] = "oslink"
    /\ LET r == SysSymlink(fs, arg[self].src, arg[self].path, env.cwd, env.privileged)
       IN  /\ fs' = r.fs
           /\ created' = [created EXCEPT ![self] = IF r.err = "" THEN {r.node} ELSE {}]
           /\ ret' = [ret EXCEPT ![self] =
                        IF r.err = "" THEN ReturnValue(None)
                        ELSE [kind |-> "raised", val |-> <<r.err>>]]
    /\ pc' = [pc EXCEPT ![self] = "idle"]
    /\ UNCHANGED <<env, arg, components, idx, new_path, frames, left, fs0, log, rep, sp>>

\* ------------------------------------------------------------------- steps

NextMkdir ==
    \E self \in Procs :
        \/ \E p \in env.targets, given \in BOOLEAN, m \in env.modes : Call(self, p, given, m)
        \/ Check(self)
        \/ SplitpathRaises(self)
        \/ Scan(self)
        \/ MakedirsEnter(self)
        \/ OsMkdir(self)

NextSymlink ==
    \E self \in Procs :
        \/ \E s \in env.srcs, d \in env.dests, o \in BOOLEAN : CallSymlink(self, s, d, o)
        \/ OverwriteTest(self)
        \/ OsUnlink(self)
        \/ OsSymlink(self)

NextPath == NextMkdir \/ NextSymlink

\* ------------------------------------------------------- initial states

Dir(m) == [kind |-> "dir", mode |-> m, target |-> EmptyStr]
File == [kind |-> "file", mode |-> 420, target |-> EmptyStr]     \* 0o644
Link(t) == [kind |-> "link", mode |-> AllPerms, target |-> t]

\* The filesystem holding the root directory and the given <<node, entry>> pairs.
MkFs(entries) ==
    LET all == entries \cup {<<RootNode, Dir(DefaultMode)>>}
    IN  [n \in {e[1] : e \in all} |-> (CHOOSE e \in all : e[1] = n)[2]]

NA == <<"a">>
NB == <<"b">>

PathA == <<"/", "a">>
PathB == <<"/", "b">>
PathAB == <<"/", "a", "/", "b">>

\* /a: absent, a regular file, a read-only directory (0o555), a symbolic link
\* to /b, a directory holding /a/b (absent, a directory or a regular file), or
\* a directory without search permission (0o600) holding the directory /a/b;
\* /b: absent or a directory.
InitFsSeq ==
    LET optsA == {{}, {<< <<NA>>, File >>}, {<< <<NA>>, Dir(365) >>}, {<< <<NA>>, Link(PathB) >>}}
                 \cup {{<< <<NA>>, Dir(DefaultMode) >>} \cup sub :
                         sub \in {{}, {<< <<NA, NB>>, Dir(DefaultMode) >>},
                                  {<< <<NA, NB>>, File >>}}}
        optsB == {{}, {<< <<NB>>, Dir(DefaultMode) >>}}
        unsearchable == {<< <<NA>>, Dir(384) >>, << <<NA, NB>>, Dir(DefaultMode) >>}
    IN  {MkFs(a \cup b) : a \in optsA, b \in optsB} \cup {MkFs(unsearchable)}

\* /a absent, a directory, or a symbolic link to the missing /b.
InitFsConc ==
    {MkFs({}), MkFs({<< <<NA>>, Dir(DefaultMode) >>}), MkFs({<< <<NA>>, Link(PathB) >>})}

TargetsSeq ==
    { PathA, PathAB, <<"/", "a", "/", "b", "/", "a">>,
      <<"/", "b", "/", "a">>,
      <<"/", "a", "/">>, <<"/", "a", "/", "b", "/">>,
      <<"/", "a", "/", ".">>, <<"/", "a", "/", ".", "/", "b">>,
      <<"/", "a", "/", ".", ".">>, <<"/", "a", "/", ".", ".", "/", "b">>,
      <<"/", "b", "/", ".", ".", "/", "a">>,
      <<"/", "/", "a">>, <<"/", "a", "/", "/", "b">>,
      <<"a">>, <<"a", "/", "b">>, Root, EmptyStr }

TargetsConc ==
    { PathA, PathAB, <<"/", "a", "/", "a">>, <<"/", "a", "/", ".">>,
      <<"/", "a", "/", "b", "/", "a">>, <<"a">> }

ModesSeq == {896}              \* 0o1600: the sticky bit, and no search permission
Umasks == {18, 63}             \* 0o022, 0o077

\* The src and dest arguments of symlink.
SrcsSeq == {PathB, PathAB, <<"b">>, EmptyStr}
DestsSeq == {PathA, PathB}

InitProcs(budget) ==
    /\ pc = [p \in Procs |-> "idle"]
    /\ arg = [p \in Procs |-> [fn |-> "", path |-> EmptyStr, given |-> FALSE,
                               mode |-> DefaultMode, src |-> EmptyStr, overwrite |-> FALSE]]
    /\ components = [p \in Procs |-> << >>]
    /\ idx = [p \in Procs |-> 0]
    /\ new_path = [p \in Procs |-> None]
    /\ frames = [p \in Procs |-> << >>]
    /\ ret = [p \in Procs |-> [kind |-> "fresh", val |-> None]]
    /\ left = budget
    /\ fs0 = [p \in Procs |-> fs]
    /\ created = [p \in Procs |-> {}]
    /\ log = [p \in Procs |-> << >>]
    /\ rep = [p \in Procs |-> NoRep]

\* One caller: process 1 makes MaxCalls calls of mkdir or symlink, one after
\* the other.
InitSeq ==
    /\ fs \in InitFsSeq
    /\ env \in [py37 : BOOLEAN, privileged : BOOLEAN, umask : Umasks, cwd : {Root},
                targets : {TargetsSeq}, modes : {ModesSeq},
                srcs : {SrcsSeq}, dests : {DestsSeq}]
    /\ InitProcs([p \in Procs |-> IF p = 1 THEN MaxCalls ELSE 0])
    /\ sp = SpOff

\* Two callers, one call of mkdir each, their steps interleaved.
InitConc ==
    /\ fs \in InitFsConc
    /\ env \in [py37 : BOOLEAN, privileged : {TRUE}, umask : {18}, cwd : {Root},
                targets : {TargetsConc}, modes : {{DefaultMode}},
                srcs : {{}}, dests : {{}}]
    /\ InitProcs([p \in Procs |-> 1])
    /\ sp = SpOff

\* splitpath alone, on every string of at most MaxLen characters.
InitSplit ==
    /\ fs = MkFs({})
    /\ env \in [py37 : {TRUE}, privileged : {TRUE}, umask : {18}, cwd : {Root, PathA},
                targets : {{}}, modes : {{}}, srcs : {{}}, dests : {{}}]
    /\ InitProcs([p \in Procs |-> 0])
    /\ sp \in [pc : {"start"}, path : Strings, head : {EmptyStr}, components : {<< >>}]

Spec == InitSeq /\ [][NextPath]_vars
SpecConc == InitConc /\ [][NextMkdir]_vars
SpecSplit == InitSplit /\ [][NextSplit]_vars

\* ------------------------------------------------------ claims: splitpath

\* Normalised depth of a path string, and "y extends x by exactly one component".
Depth(x) == Len(NodeOf(normpath(x)))
ExtendsByOne(x, y) ==
    /\ IsAbs(y)
    /\ Depth(y) = Depth(x) + 1
    /\ SubSeq(NodeOf(normpath(y)), 1, Depth(x)) = NodeOf(normpath(x))

\* A sequence from the root to p, each element one component deeper than the last.
IsAncestorChain(cs, p) ==
    /\ Len(cs) >= 1
    /\ cs[1] = Root
    /\ cs[Len(cs)] = p
    /\ \A i \in 1..(Len(cs) - 1) : ExtendsByOne(cs[i], cs[i + 1])
    /\ \A i, j \in 1..Len(cs) : i # j => cs[i] # cs[j]

\* An absolute path other than the root with one leading slash, no trailing
\* slash and no "." or ".." component.
PlainAbsolute(p) ==
    /\ IsAbs(p)
    /\ p # Root
    /\ ~(Len(p) >= 2 /\ p[2] = Slash)
    /\ p[Len(p)] # Slash
    /\ \A i \in 1..Len(StrSplit(p)) : StrSplit(p)[i] \notin {Curdir, Pardir}

\* C5: splitpath terminates on every input path, absolute or relative, by
\* arriving at the root: every pass of its loop that is followed by another
\* leaves a strictly shorter head, so the root is reached after at most
\* Len(path) passes.  (A pass that leaves head as it was, head not being the
\* root, is repeated until the list can grow no more and the call raises
\* MemoryError.)
C5_EveryPassShortensHead ==
    [][(sp.pc = "loop" /\ sp'.pc = "loop") => Len(sp'.head) < Len(sp.head)]_vars

\* C10 as stated: for every absolute input path, the root and a path with a
\* trailing slash included, the returned sequence starts at the root, ends at
\* the input, repeats no element and grows by exactly one component per element.
C10_ChainForEveryAbsolutePath ==
    (sp.pc = "done" /\ IsAbs(sp.path)) => IsAncestorChain(sp.components, sp.path)

\* C10 amended: for every absolute input path other than the root that has one
\* leading slash, no trailing slash and no "." or ".." component, splitpath
\* returns (its loop shortens head in every pass) a sequence that starts at
\* the root, ends at the input, repeats no element and grows by exactly one
\* component per element.
C10_ChainForPlainAbsolutePath ==
    PlainAbsolute(sp.path) =>
        /\ sp.pc = "loop" /\ sp.head # Root => Len(ParentOf(sp.head)) < Len(sp.head)
        /\ sp.pc = "done" => IsAncestorChain(sp.components, sp.path)

C10_Witness ==
    /\ sp.pc = "done"
    /\ PlainAbsolute(sp.path)
    /\ Len(sp.components) >= 3

\* ---------------------------------------------------------- claims: mkdir

\* A call of mkdir by process q has ended: it returned None or a path, or it
\* raised.
Finished(q) ==
    pc[q] = "idle" /\ arg[q].fn = "mkdir" /\ ret[q].kind \in {"none", "path", "raised"}
Returned(q) == Finished(q) /\ ret[q].kind \in {"none", "path"}

\* Whether p names an entry of f, whatever the caller may search: what a
\* privileged caller's os.path.exists sees.
Present(f, p, wd) == exists(f, p, wd, TRUE)

\* The target did not exist when the call began.
WasMissing(q) == ~Present(fs0[q], arg[q].path, env.cwd)

\* The ancestor chain of p as the spec words it: the root and every prefix of
\* p that ends where a component ends, p itself included.
PrefixSet(p) ==
    {Root} \cup {SubSeq(p, 1, i) : i \in {j \in 1..Len(p) : j = Len(p) \/ p[j + 1] = Slash}}

\* The shallowest member of the chain of p that does not exist in f.
ShallowestMissing(f, p, wd) ==
    LET missing == {q \in PrefixSet(p) : ~Present(f, q, wd)}
    IN  CHOOSE q \in missing : \A r \in missing : Len(q) <= Len(r)

\* C1: a successful mkdir(p) on an absolute path p that did not exist returns
\* the shallowest member of the ancestor chain of p (root down to p) that did
\* not exist immediately before the call.
C1_ReturnsShallowestMissing ==
    \A q \in Procs :
        (Returned(q) /\ IsAbs(arg[q].path) /\ WasMissing(q)) =>
            /\ ret[q].kind = "path"
            /\ ret[q].val = abspath(ShallowestMissing(fs0[q], arg[q].path, env.cwd), env.cwd)

\* Beside C1: the statement of C1 holds of every call whose target has no
\* ".." component.
C1_HoldsUnlessDotDot ==
    \A q \in Procs :
        (Returned(q) /\ IsAbs(arg[q].path) /\ WasMissing(q)
           /\ \A i \in 1..Len(StrSplit(arg[q].path)) : StrSplit(arg[q].path)[i] # Pardir) =>
            /\ ret[q].kind = "path"
            /\ ret[q].val = abspath(ShallowestMissing(fs0[q], arg[q].path, env.cwd), env.cwd)

WasVisible(q) == exists(fs0[q], arg[q].path, env.cwd, env.privileged)

ChainNodes(f, p, wd) == {Stat(f, c, wd, TRUE).node : c \in PrefixSet(p)}

\* C3: after a successful mkdir(p) on an absolute path p that did not exist,
\* every member of the chain of p is a directory, the entries are those from
\* before the call plus the chain members that were missing, and every entry
\* from before the call is unchanged.
C3_CreatesExactlyTheMissingChain ==
    \A q \in Procs :
        (Returned(q) /\ IsAbs(arg[q].path) /\ WasMissing(q)) =>
            /\ \A c \in PrefixSet(arg[q].path) :
                   Present(fs, c, env.cwd) /\ IsDir(fs, Stat(fs, c, env.cwd, TRUE).node)
            /\ DOMAIN fs = DOMAIN fs0[q] \cup ChainNodes(fs, arg[q].path, env.cwd)
            /\ \A n \in DOMAIN fs0[q] : fs[n] = fs0[q][n]
            /\ DOMAIN fs \ DOMAIN fs0[q] = created[q]

\* Beside C3: the statement of C3 holds of every call whose target does not
\* end in a "." component.
C3_HoldsUnlessDotTarget ==
    (\A q \in Procs : MakedirsParts(arg[q].path)[2] # Curdir) => C3_CreatesExactlyTheMissingChain

\* C4: of two successive calls on the same path, which did not exist before
\* the first, with no other actor: the first, when it ends without an error,
\* has created the chain and returned a path; the second returns None, raises
\* nothing, creates nothing and leaves the filesystem as the first left it.
C4_SecondCallIsNoOp ==
    \A q \in Procs :
        (Finished(q) /\ rep[q].same /\ rep[q].missing /\ rep[q].kind \in {"none", "path"}) =>
            /\ rep[q].kind = "path"
            /\ ret[q] = [kind |-> "none", val |-> None]
            /\ fs = fs0[q]
            /\ created[q] = {}

\* Beside C4: the statement of C4 holds of every pair of calls whose target
\* does not end in a "." component.
C4_HoldsUnlessDotTarget ==
    (\A q \in Procs : MakedirsParts(arg[q].path)[2] # Curdir) => C4_SecondCallIsNoOp

\* os.makedirs failed in the call of q: a mkdir(2) of it failed in the
\* outermost os.makedirs call, or failed with an error other than EEXIST.
CreationFailed(q) ==
    \E i \in 1..Len(log[q]) :
        /\ log[q][i].err # ""
        /\ (log[q][i].depth = 1 \/ log[q][i].err # "EEXIST")

\* C6: when the directory creation (os.makedirs, line 53) fails during mkdir,
\* the call ends with that error and returns no path; the failed mkdir(2) is
\* the last thing it did (no retry); and nothing is cleaned up: what existed
\* before the call is unchanged and what the call had created is still there.
C6_FailurePropagatesNoCleanup ==
    \A q \in Procs :
        Finished(q) =>
            /\ CreationFailed(q) <=> (ret[q].kind = "raised" /\ ret[q].val # MemoryError)
            /\ CreationFailed(q) =>
                 /\ log[q][Len(log[q])].err = ret[q].val[1]
                 /\ \A i \in 1..(Len(log[q]) - 1) :
                        log[q][i].err = "" \/ log[q][i].depth > 1
                 /\ \A i, j \in 1..Len(log[q]) : i # j => log[q][i].name # log[q][j].name
                 /\ \A n \in DOMAIN fs0[q] : n \in DOMAIN fs /\ fs[n] = fs0[q][n]
                 /\ \A n \in created[q] : IsDir(fs, n)
                 /\ DOMAIN fs = DOMAIN fs0[q] \cup created[q]

\* The call raised after it had created a directory.
C6_Witness ==
    /\ Finished(1)
    /\ ret[1].kind = "raised"
    /\ created[1] # {}
    /\ created[1] \subseteq DOMAIN fs

\* C7: every directory a call mkdir(path, mode) creates, the target and each
\* missing intermediate ancestor alike, has the mode asked for (less the bits
\* of the umask), and with no mode argument that mode is 0755.
C7_EveryCreatedDirectoryHasMode ==
    \A q \in Procs :
        arg[q].fn = "mkdir" =>
            /\ ~arg[q].given => arg[q].mode = DefaultMode
            /\ \A n \in created[q] : fs[n].mode = Masked(arg[q].mode, env.umask)

\* C8: of concurrent calls on the same target, which did not exist, a call
\* whose target was created by another actor after its existence check found
\* it missing ends with an error; so at most one of the calls returns a path.
C8_LosingCallRaises ==
    /\ \A q \in Procs :
           (Finished(q) /\ WasMissing(q) /\ log[q] # << >>
              /\ exists(fs, arg[q].path, env.cwd, env.privileged)
              /\ Stat(fs, arg[q].path, env.cwd, env.privileged).node \notin created[q])
           => ret[q].kind = "raised"
    /\ \A q, r \in Procs :
           (q # r /\ Finished(q) /\ Finished(r) /\ arg[q].path = arg[r].path
              /\ WasMissing(q) /\ WasMissing(r))
           => ~(ret[q].kind = "path" /\ ret[r].kind = "path")

\* C9 as stated: every path a call returns names a directory that this same
\* call created; so no two calls return the same path and a call that created
\* nothing returns no path.
C9_ReturnedPathCreatedByCaller ==
    /\ \A q \in Procs :
           (Finished(q) /\ ret[q].kind = "path") =>
               /\ exists(fs, ret[q].val, env.cwd, env.privileged)
               /\ Stat(fs, ret[q].val, env.cwd, env.privileged).node \in created[q]
    /\ \A q, r \in Procs :
           (q # r /\ Finished(q) /\ Finished(r) /\ ret[q].kind = "path" /\ ret[r].kind = "path")
           => ret[q].val # ret[r].val

\* C9 amended: every path a call returns names something that did not exist
\* when the call began; and when the target has no "." or ".." component, it
\* names a directory when the call returns: one created during the call, by
\* this call or by a concurrent one.
C9_ReturnedPathCreatedDuringCall ==
    \A q \in Procs :
        (Finished(q) /\ ret[q].kind = "path") =>
            /\ ~exists(fs0[q], ret[q].val, env.cwd, env.privileged)
            /\ (\A i \in 1..Len(StrSplit(arg[q].path)) :
                    StrSplit(arg[q].path)[i] \notin {Curdir, Pardir}) =>
                   /\ exists(fs, ret[q].val, env.cwd, env.privileged)
                   /\ IsDir(fs, Stat(fs, ret[q].val, env.cwd, env.privileged).node)

\* Both calls, on /a/b and on /a/a, returned /a, which one of them created.
C9_Witness ==
    /\ Finished(1) /\ Finished(2)
    /\ arg[1].path = <<"/", "a", "/", "b">>
    /\ arg[2].path = <<"/", "a", "/", "a">>
    /\ ret[1] = [kind |-> "path", val |-> <<"/", "a">>]
    /\ ret[2] = ret[1]
    /\ <<NA>> \in created[1]

\* Beside C8: with the targets whose last component is "." left out (for
\* those os.makedirs returns without a mkdir of the target), the statement of
\* C8 holds of every interleaving.
C8_HoldsUnlessDotTarget ==
    (\A q \in Procs : MakedirsParts(arg[q].path)[2] # Curdir) => C8_LosingCallRaises

====
